---- MODULE Spec2Model ----
(***************************************************************************)
(* Model of the face-recognition backend (src/app.py, src/face-store.py).  *)
(*                                                                         *)
(* Every HTTP request runs on its own thread.  A thread advances by one    *)
(* step per source statement that touches state shared with other threads  *)
(* (the image directory, the module globals _known_*, the FaceStore        *)
(* object, the cache file, the registry file, _lock); purely local         *)
(* statements are folded into the step that follows them.  A "with _lock"  *)
(* block acquires the lock in its first step and releases it in its last.  *)
(*                                                                         *)
(* A file name is a sequence of symbols: single characters, and the words  *)
(* "jpg" "JPG" "jpeg" "png" "gif" standing for those character runs.       *)
(* An image's content is what the Embedder makes of it: the encodings of   *)
(* the faces it holds, or the fact that the Embedder raises on it.         *)
(***************************************************************************)
EXTENDS Integers, Sequences, FiniteSets, TLC

(***************************************************************************)
(* Bounds                                                                  *)
(***************************************************************************)
\* requests started in one run of the concurrent specification
MaxRequests == 2
\* requests started in one run of the one-at-a-time specification
MaxSeqRequests == 3
\* recognize requests started in one run of the matcher specification
MaxMatchRequests == 1
\* largest encoding value / threshold of the matcher specification
MaxEnc == 3
\* longest gallery of the matcher specification
MaxGallery == 3

\* request threads; an incoming request is served by the first idle one
Threads == {1, 2}
\* _lock is free
NoThread == 0

(***************************************************************************)
(* File names                                                              *)
(***************************************************************************)
ALLOWED_EXT == {"jpg", "jpeg", "png"}

\* str.lower() on the symbols of the model
lower(s) == IF s = "JPG" THEN "jpg" ELSE s

\* position of the last "." of a name, 0 when it has none
LastDot(fn) ==
    IF \E k \in 1..Len(fn) : fn[k] = "."
    THEN CHOOSE k \in 1..Len(fn) :
            fn[k] = "." /\ \A j \in (k+1)..Len(fn) : fn[j] # "."
    ELSE 0

\* allowed_file without the test of the extension
allowed_file_any(fn) == LastDot(fn) > 0

\* "." in filename and filename.rsplit(".", 1)[1].lower() in ALLOWED_EXT
allowed_file(fn) ==
    /\ LastDot(fn) > 0
    /\ LET e == SubSeq(fn, LastDot(fn) + 1, Len(fn))
       IN  Len(e) = 1 /\ lower(e[1]) \in ALLOWED_EXT

RECURSIVE WsJoin(_, _, _)
\* "_".join(filename.split()): whitespace runs become one "_", those at the
\* ends disappear
WsJoin(s, acc, gap) ==
    IF s = <<>> THEN acc
    ELSE IF Head(s) = " " THEN WsJoin(Tail(s), acc, acc # <<>>)
    ELSE WsJoin(Tail(s),
                (IF gap THEN Append(acc, "_") ELSE acc) \o <<Head(s)>>,
                FALSE)

RECURSIVE LStrip(_)
LStrip(s) ==
    IF s # <<>> /\ Head(s) \in {".", "_"} THEN LStrip(Tail(s)) ELSE s

RECURSIVE RStrip(_)
RStrip(s) ==
    IF s # <<>> /\ s[Len(s)] \in {".", "_"}
    THEN RStrip(SubSeq(s, 1, Len(s) - 1)) ELSE s

\* werkzeug.utils.secure_filename on the symbols of the model (all of them
\* but " " are in its safe alphabet): join on whitespace, strip "._"
secure_filename(fn) == RStrip(LStrip(WsJoin(fn, <<>>, FALSE)))

\* os.path.splitext: <<root, ext>>, ext starting at the last "." unless only
\* dots precede it
splitext(fn) ==
    LET k == LastDot(fn)
    IN  IF k > 0 /\ \E j \in 1..(k - 1) : fn[j] # "."
        THEN <<SubSeq(fn, 1, k - 1), SubSeq(fn, k, Len(fn))>>
        ELSE <<fn, <<>>>>

Digits == <<"1", "2", "3", "4", "5", "6", "7", "8", "9">>

\* str(i) for the suffixes the bounds allow
Str(i) == IF i < 10 THEN <<Digits[i]>>
          ELSE <<Digits[i \div 10], IF i % 10 = 0 THEN "0" ELSE Digits[i % 10]>>

\* f"{base}_{i}{ext}"
Suffixed(base, i, ext) == base \o <<"_">> \o Str(i) \o ext

\* character order of the symbols (ASCII)
Rank(s) ==
    CASE s = " "    -> 1
      [] s = "."    -> 2
      [] s = "0"    -> 3
      [] s = "1"    -> 4
      [] s = "2"    -> 5
      [] s = "3"    -> 6
      [] s = "4"    -> 7
      [] s = "5"    -> 8
      [] s = "6"    -> 9
      [] s = "7"    -> 10
      [] s = "8"    -> 11
      [] s = "9"    -> 12
      [] s = "JPG"  -> 13
      [] s = "Unknown" -> 14
      [] s = "_"    -> 15
      [] s = "a"    -> 16
      [] s = "b"    -> 17
      [] s = "gif"  -> 18
      [] s = "jpeg" -> 19
      [] s = "jpg"  -> 20
      [] s = "png"  -> 21
      [] s = "x"    -> 22
      [] s = "y"    -> 23

RECURSIVE NameLess(_, _)
\* a < b on str
NameLess(a, b) ==
    IF a = <<>> THEN b # <<>>
    ELSE IF b = <<>> THEN FALSE
    ELSE IF Head(a) = Head(b) THEN NameLess(Tail(a), Tail(b))
    ELSE Rank(Head(a)) < Rank(Head(b))

RECURSIVE sorted(_)
\* sorted(os.listdir(...))
sorted(S) ==
    IF S = {} THEN <<>>
    ELSE LET m == CHOOSE x \in S : \A y \in S \ {x} : NameLess(x, y)
         IN  <<m>> \o sorted(S \ {m})

(***************************************************************************)
(* The Embedder (face_recognition) and image contents                      *)
(***************************************************************************)
\* an image in which the Embedder finds the faces with these encodings
Img(faces) == [ok |-> TRUE, faces |-> faces]
\* an image the Embedder raises on
Corrupt == [ok |-> FALSE, faces |-> <<>>]

\* None, as a distance or a face count
Null == -1
\* None, as a name
NoName == <<>>
Unknown == <<"Unknown">>

Abs(n) == IF n < 0 THEN 0 - n ELSE n

\* face_recognition.face_distance(known_encs, enc)
face_distance(known_encs, enc) ==
    [k \in 1..Len(known_encs) |-> Abs(known_encs[k].v - enc)]

\* argmin taking the last index of the least value
argmin_last(d) ==
    CHOOSE k \in 1..Len(d) :
        /\ \A j \in 1..Len(d) : d[k] <= d[j]
        /\ \A j \in (k + 1)..Len(d) : d[j] # d[k]

\* np.argmin: the first index of the least value
argmin(d) ==
    CHOOSE k \in 1..Len(d) :
        /\ \A j \in 1..Len(d) : d[k] <= d[j]
        /\ \A j \in 1..(k - 1) : d[j] # d[k]

\* the encoding kept for a file: the value, and the file it was computed from
Enc(fname, v) == [f |-> fname, v |-> v]

\* os.path.splitext(fname)[0]
Stem(fname) == splitext(fname)[1]

EmptyMeta == [x \in {} |-> 0]
EmptyDisk == [x \in {} |-> Corrupt]

\* d[key] = val on a dict
Put(d, key, val) ==
    [x \in (DOMAIN d) \cup {key} |-> IF x = key THEN val ELSE d[x]]

\* a dict without key
Drop(d, key) == [x \in (DOMAIN d) \ {key} |-> d[x]]

EmptyGallery == [encodings |-> <<>>, names |-> <<>>, meta |-> EmptyMeta]

\* the loop body of a directory scan for a file the Embedder accepts
\* (app.py 194-206, face-store.py 56-66)
ScanFile(acc, fname, img) ==
    IF ~allowed_file(fname) THEN acc
    ELSE IF img.faces = <<>>
    THEN [acc EXCEPT !.meta = Put(acc.meta, fname, 0)]
    ELSE [encodings |-> Append(acc.encodings, Enc(fname, img.faces[1])),
          names |-> Append(acc.names, Stem(fname)),
          meta |-> Put(acc.meta, fname, Len(img.faces))]

RECURSIVE ScanAll(_, _, _)
\* the scan of build_cache_from_disk run to its end on directory d, files
\* the Embedder raises on skipped
ScanAll(acc, files, d) ==
    IF files = <<>> THEN acc
    ELSE LET f == Head(files)
         IN  ScanAll(IF d[f].ok THEN ScanFile(acc, f, d[f]) ELSE acc,
                     Tail(files), d)

Rebuild(d) == ScanAll(EmptyGallery, sorted(DOMAIN d), d)

(***************************************************************************)
(* State                                                                   *)
(***************************************************************************)
VARIABLES
    embedder,         \* face_recognition is not None
    disk,             \* IMAGES_DIR: file name -> content
    known_encodings,  \* _known_encodings
    known_names,      \* _known_names
    known_meta,       \* _known_meta
    store,            \* _store: the FaceStore's encodings, names, meta
    cacheFile,        \* ENC_CACHE_PATH: the pickled triple
    registry,         \* REGISTRY_PATH: the JSON list, or an unreadable file
    lock,             \* _lock: the thread holding it
    pc,               \* per thread: the statement it is at
    loc,              \* per thread: its request and local variables
    resp,             \* per thread: the response of the request it finished
    nreq              \* requests started so far

vars == <<embedder, disk, known_encodings, known_names, known_meta, store,
          cacheFile, registry, lock, pc, loc, resp, nreq>>

shared == <<disk, known_encodings, known_names, known_meta, store,
            cacheFile, registry>>

gallery == [encodings |-> known_encodings, names |-> known_names,
            meta |-> known_meta]

NoLoc == [kind |-> "none", ts |-> 0, name |-> <<>>, content |-> Corrupt,
          dest |-> <<>>, b |-> <<>>, i |-> 0, files |-> <<>>,
          acc |-> EmptyGallery,
          faces |-> <<>>, thr |-> 0, snapE |-> <<>>, snapN |-> <<>>,
          results |-> <<>>, items |-> <<>>, loaded |-> 0, scratch |-> FALSE]

NoResp == [code |-> 0]

\* the registry file: readable as a JSON list, or not
Readable(items) == [ok |-> TRUE, items |-> items]
Unreadable == [ok |-> FALSE, items |-> <<>>]

(***************************************************************************)
(* Inputs                                                                  *)
(***************************************************************************)
xjpg == <<"x", ".", "jpg">>
xyJPG == <<"x", " ", "y", ".", "JPG">>
xgif == <<"x", ".", "gif">>
apng == <<"a", ".", "png">>

UploadNames == {xjpg, xyJPG, xgif, <<>>}
UploadContents == {Img(<<1>>), Img(<<2, 0>>), Img(<<>>), Corrupt}
DeleteNames == {xjpg, xgif}
CompareNames == {xjpg, apng}
ProbeNames == {xjpg, xgif, <<>>}
ProbeContents == {Img(<<1>>), Img(<<0, 3>>), Img(<<>>), Corrupt}
Thresholds == 0..(MaxEnc - 1)

\* the image directories the process may be started on
InitDisks == {EmptyDisk,
              [x \in {apng, xjpg} |-> IF x = apng THEN Img(<<3>>) ELSE Img(<<1, 2>>)]}

(***************************************************************************)
(* Start-up (app.py 126-132, 227-231): the cache a previous run left is    *)
(* loaded into the FaceStore and the globals                               *)
(***************************************************************************)
InitOn(d) ==
    /\ embedder \in BOOLEAN
    /\ disk = d
    /\ known_encodings = Rebuild(d).encodings
    /\ known_names = Rebuild(d).names
    /\ known_meta = Rebuild(d).meta
    /\ store = Rebuild(d)
    /\ cacheFile = Rebuild(d)
    /\ registry = Readable(<<>>)
    /\ lock = NoThread
    /\ pc = [t \in Threads |-> "idle"]
    /\ loc = [t \in Threads |-> NoLoc]
    /\ resp = [t \in Threads |-> NoResp]
    /\ nreq = 0

Init == \E d \in InitDisks : InitOn(d)

(***************************************************************************)
(* Request plumbing                                                        *)
(***************************************************************************)
\* the request ends with response r
Finish(t, r) ==
    /\ pc' = [pc EXCEPT ![t] = "done"]
    /\ resp' = [resp EXCEPT ![t] = r]

Goto(t, label) ==
    /\ pc' = [pc EXCEPT ![t] = label]
    /\ UNCHANGED resp

\* a request is accepted by thread t, the first idle one; mode says how many
\* requests a run takes and whether a request waits for the others to end
Begin(t, mode) ==
    /\ pc[t] = "idle"
    /\ \A u \in Threads : pc[u] = "idle" => t <= u
    /\ mode.alone => \A u \in Threads : pc[u] = "idle"
    /\ nreq < mode.limit
    /\ nreq' = nreq + 1

Fresh(t, kind) == [NoLoc EXCEPT !.kind = kind]

\* the response has been sent; the thread takes the next request
Return(t) ==
    /\ pc[t] = "done"
    /\ pc' = [pc EXCEPT ![t] = "idle"]
    /\ loc' = [loc EXCEPT ![t] = NoLoc]
    /\ resp' = [resp EXCEPT ![t] = NoResp]
    /\ UNCHANGED <<embedder, shared, lock, nreq>>

\* "with _lock:" entered by t
Acquire(t) == lock = NoThread /\ lock' = t
\* the last statement of a "with _lock:" block of t
Release(t) == lock = t /\ lock' = NoThread
\* a one-statement "with _lock:" block
Locked(t) == lock = NoThread /\ lock' = NoThread

(***************************************************************************)
(* POST /upload (app.py 269-320)                                           *)
(***************************************************************************)
\* 275-276: the Embedder is absent
UploadUnavailable(t, mode) ==
    /\ Begin(t, mode)
    /\ ~embedder
    /\ \E name \in UploadNames :
          loc' = [loc EXCEPT ![t] = [Fresh(t, "upload") EXCEPT !.name = name]]
    /\ Finish(t, [code |-> 500, error |-> "face_recognition not installed"])
    /\ UNCHANGED <<embedder, shared, lock>>

\* 278-279: the form has no field "file"
UploadNoFile(t, mode) ==
    /\ Begin(t, mode)
    /\ embedder
    /\ loc' = [loc EXCEPT ![t] = Fresh(t, "upload")]
    /\ Finish(t, [code |-> 400, error |-> "no file provided"])
    /\ UNCHANGED <<embedder, shared, lock>>

\* 281-283: the file name is empty or not of an allowed type
UploadInvalid(t, mode) ==
    /\ Begin(t, mode)
    /\ embedder
    /\ \E name \in UploadNames :
          /\ name = <<>> \/ ~allowed_file(name)
          /\ loc' = [loc EXCEPT ![t] = [Fresh(t, "upload") EXCEPT !.name = name]]
    /\ Finish(t, [code |-> 400, error |-> "invalid file type"])
    /\ UNCHANGED <<embedder, shared, lock>>

\* 285-289: the destination starts as the sanitised name
UploadAccept(t, mode) ==
    /\ Begin(t, mode)
    /\ embedder
    /\ \E name \in UploadNames, content \in UploadContents :
          /\ ~(name = <<>> \/ ~allowed_file(name))
          /\ loc' = [loc EXCEPT ![t] =
                [Fresh(t, "upload") EXCEPT !.name = name, !.content = content,
                                           !.dest = secure_filename(name),
                                           !.i = 1]]
    /\ Goto(t, "u_exists")
    /\ UNCHANGED <<embedder, shared, lock>>

\* the loop of 290-292 run as an "if": a taken name gets the suffix _1 and
\* is not tested again
UploadExistsOnce(t) ==
    /\ pc[t] = "u_exists"
    /\ LET se == splitext(secure_filename(loc[t].name))
       IN  loc' = [loc EXCEPT ![t].dest = IF loc[t].dest \in DOMAIN disk
                                          THEN Suffixed(se[1], 1, se[2])
                                          ELSE loc[t].dest]
    /\ Goto(t, "u_save")
    /\ UNCHANGED <<embedder, shared, lock, nreq>>

\* 290-292: one test of the while loop; the next candidate while it exists
UploadExists(t) ==
    /\ pc[t] = "u_exists"
    /\ LET se == splitext(secure_filename(loc[t].name))
       IN  IF loc[t].dest \in DOMAIN disk
           THEN /\ loc' = [loc EXCEPT ![t].dest = Suffixed(se[1], loc[t].i, se[2]),
                                      ![t].i = loc[t].i + 1]
                /\ Goto(t, "u_exists")
           ELSE /\ UNCHANGED loc
                /\ Goto(t, "u_save")
    /\ UNCHANGED <<embedder, shared, lock, nreq>>

\* 293-294: f.save(dest_path)
UploadSave(t) ==
    /\ pc[t] = "u_save"
    /\ disk' = Put(disk, loc[t].dest, loc[t].content)
    /\ Goto(t, "u_encode")
    /\ UNCHANGED <<embedder, known_encodings, known_names, known_meta, store,
                   cacheFile, registry, lock, loc, nreq>>

\* 298-300 and 318-320: the Embedder reads the saved file; if it raises (the
\* file is gone, or not an image it can read) the request ends in 500
UploadEncode(t) ==
    /\ pc[t] = "u_encode"
    /\ IF loc[t].dest \in DOMAIN disk /\ disk[loc[t].dest].ok
       THEN /\ loc' = [loc EXCEPT ![t].faces = disk[loc[t].dest].faces]
            /\ Goto(t, IF disk[loc[t].dest].faces # <<>> THEN "u_app_enc"
                                                         ELSE "u_meta")
       ELSE /\ UNCHANGED loc
            /\ Finish(t, [code |-> 500,
                          error |-> "failed to process uploaded image"])
    /\ UNCHANGED <<embedder, shared, lock, nreq>>

\* 301-303: with _lock: _known_encodings.append(encs[0])
UploadAppendEnc(t) ==
    /\ pc[t] = "u_app_enc"
    /\ Acquire(t)
    /\ known_encodings' =
          Append(known_encodings, Enc(loc[t].dest, loc[t].faces[1]))
    /\ Goto(t, "u_app_name")
    /\ UNCHANGED <<embedder, disk, known_names, known_meta, store, cacheFile,
                   registry, loc, nreq>>

\* 304: _known_names.append(os.path.splitext(dest_name)[0])
UploadAppendName(t) ==
    /\ pc[t] = "u_app_name"
    /\ lock = t
    /\ known_names' = Append(known_names, Stem(loc[t].dest))
    /\ Goto(t, "u_meta")
    /\ UNCHANGED <<embedder, disk, known_encodings, known_meta, store,
                   cacheFile, registry, lock, loc, nreq>>

\* 305: _known_meta[dest_name] = {"faces": faces_count}, the end of the block
UploadMeta(t) ==
    /\ pc[t] = "u_meta"
    /\ IF loc[t].faces # <<>> THEN Release(t) ELSE Locked(t)
    /\ known_meta' = Put(known_meta, loc[t].dest, Len(loc[t].faces))
    /\ Goto(t, "u_store_enc")
    /\ UNCHANGED <<embedder, disk, known_encodings, known_names, store,
                   cacheFile, registry, loc, nreq>>

\* 310: _store.encodings = list(_known_encodings)
UploadStoreEnc(t) ==
    /\ pc[t] = "u_store_enc"
    /\ store' = [store EXCEPT !.encodings = known_encodings]
    /\ Goto(t, "u_store_names")
    /\ UNCHANGED <<embedder, disk, known_encodings, known_names, known_meta,
                   cacheFile, registry, lock, loc, nreq>>

\* 311: _store.names = list(_known_names)
UploadStoreNames(t) ==
    /\ pc[t] = "u_store_names"
    /\ store' = [store EXCEPT !.names = known_names]
    /\ Goto(t, "u_store_meta")
    /\ UNCHANGED <<embedder, disk, known_encodings, known_names, known_meta,
                   cacheFile, registry, lock, loc, nreq>>

\* 312: _store.meta = dict(_known_meta)
UploadStoreMeta(t) ==
    /\ pc[t] = "u_store_meta"
    /\ store' = [store EXCEPT !.meta = known_meta]
    /\ Goto(t, "u_store_save")
    /\ UNCHANGED <<embedder, disk, known_encodings, known_names, known_meta,
                   cacheFile, registry, lock, loc, nreq>>

\* 313: _store.save_cache() (face-store.py 39-46)
UploadStoreSave(t) ==
    /\ pc[t] = "u_store_save"
    /\ cacheFile' = store
    /\ Goto(t, "u_save_cache")
    /\ UNCHANGED <<embedder, disk, known_encodings, known_names, known_meta,
                   store, registry, lock, loc, nreq>>

\* 316-317: save_cache(ENC_CACHE_PATH) (139-146), then 201
UploadSaveCache(t) ==
    /\ pc[t] = "u_save_cache"
    /\ Locked(t)
    /\ cacheFile' = gallery
    /\ Finish(t, [code |-> 201, filename |-> loc[t].dest, saved |-> TRUE,
                  faces |-> Len(loc[t].faces)])
    /\ UNCHANGED <<embedder, disk, known_encodings, known_names, known_meta,
                   store, registry, loc, nreq>>

(***************************************************************************)
(* build_cache_from_disk (app.py 167-224), called by DELETE and /reload,   *)
(* and FaceStore.build_from_disk (face-store.py 48-71)                     *)
(***************************************************************************)
\* what the caller answers once the rebuild has returned result (a count,
\* or Null for {"error": ...}): reload_endpoint 345-348, delete_image 339-340
BuildDone(t, result) ==
    IF loc[t].kind = "delete"
    THEN Finish(t, [code |-> 200, deleted |-> TRUE, reloaded |-> result])
    ELSE IF result = Null
    THEN Finish(t, [code |-> 500, error |-> "face_recognition not available"])
    ELSE Finish(t, [code |-> 200, loaded |-> result])

\* 172-173
BuildUnavailable(t) ==
    /\ pc[t] = "b_start"
    /\ ~embedder
    /\ BuildDone(t, Null)
    /\ UNCHANGED <<embedder, shared, lock, loc, nreq>>

\* 176-178, face-store.py 51-54: files = sorted(os.listdir(self.images_dir))
FsList(t) ==
    /\ pc[t] = "b_start"
    /\ embedder
    /\ loc' = [loc EXCEPT ![t].files = sorted(DOMAIN disk),
                          ![t].acc = EmptyGallery]
    /\ Goto(t, "fs_scan")
    /\ UNCHANGED <<embedder, shared, lock, nreq>>

\* face-store.py 55-66: one file of the scan; an Embedder error ends the
\* FaceStore build and app.py 186-187 falls back to its own scan
FsScan(t) ==
    /\ pc[t] = "fs_scan"
    /\ loc[t].files # <<>>
    /\ LET f == Head(loc[t].files)
       IN  IF ~allowed_file(f)
           THEN /\ loc' = [loc EXCEPT ![t].files = Tail(loc[t].files)]
                /\ Goto(t, "fs_scan")
           ELSE IF f \in DOMAIN disk /\ disk[f].ok
           THEN /\ loc' = [loc EXCEPT ![t].files = Tail(loc[t].files),
                                      ![t].acc = ScanFile(loc[t].acc, f, disk[f])]
                /\ Goto(t, "fs_scan")
           ELSE /\ loc' = [loc EXCEPT ![t].files = <<>>,
                                      ![t].acc = EmptyGallery]
                /\ Goto(t, "fb_list")
    /\ UNCHANGED <<embedder, shared, lock, nreq>>

\* face-store.py 67: self.encodings = encs
FsSetEnc(t) ==
    /\ pc[t] = "fs_scan"
    /\ loc[t].files = <<>>
    /\ store' = [store EXCEPT !.encodings = loc[t].acc.encodings]
    /\ Goto(t, "fs_set_names")
    /\ UNCHANGED <<embedder, disk, known_encodings, known_names, known_meta,
                   cacheFile, registry, lock, loc, nreq>>

\* face-store.py 68: self.names = names
FsSetNames(t) ==
    /\ pc[t] = "fs_set_names"
    /\ store' = [store EXCEPT !.names = loc[t].acc.names]
    /\ Goto(t, "fs_set_meta")
    /\ UNCHANGED <<embedder, disk, known_encodings, known_names, known_meta,
                   cacheFile, registry, lock, loc, nreq>>

\* face-store.py 69: self.meta = meta
FsSetMeta(t) ==
    /\ pc[t] = "fs_set_meta"
    /\ store' = [store EXCEPT !.meta = loc[t].acc.meta]
    /\ loc' = [loc EXCEPT ![t].acc = EmptyGallery]
    /\ Goto(t, "fs_save")
    /\ UNCHANGED <<embedder, disk, known_encodings, known_names, known_meta,
                   cacheFile, registry, lock, nreq>>

\* face-store.py 70: self.save_cache()
FsSave(t) ==
    /\ pc[t] = "fs_save"
    /\ cacheFile' = store
    /\ Goto(t, "fs_return")
    /\ UNCHANGED <<embedder, disk, known_encodings, known_names, known_meta,
                   store, registry, lock, loc, nreq>>

\* face-store.py 71: return len(self.names)
FsReturn(t) ==
    /\ pc[t] = "fs_return"
    /\ loc' = [loc EXCEPT ![t].loaded = Len(store.names)]
    /\ Goto(t, "b_copy_enc")
    /\ UNCHANGED <<embedder, shared, lock, nreq>>

\* 179-181: with _lock: _known_encodings = list(_store.encodings)
BuildCopyEnc(t) ==
    /\ pc[t] = "b_copy_enc"
    /\ Acquire(t)
    /\ known_encodings' = store.encodings
    /\ Goto(t, "b_copy_names")
    /\ UNCHANGED <<embedder, disk, known_names, known_meta, store, cacheFile,
                   registry, loc, nreq>>

\* 182: _known_names = list(_store.names)
BuildCopyNames(t) ==
    /\ pc[t] = "b_copy_names"
    /\ lock = t
    /\ known_names' = store.names
    /\ Goto(t, "b_copy_meta")
    /\ UNCHANGED <<embedder, disk, known_encodings, known_meta, store,
                   cacheFile, registry, lock, loc, nreq>>

\* 183-185: _known_meta = dict(_store.meta), the end of the block, and
\* return {"loaded": int(loaded)}
BuildCopyMeta(t) ==
    /\ pc[t] = "b_copy_meta"
    /\ Release(t)
    /\ known_meta' = store.meta
    /\ BuildDone(t, loc[t].loaded)
    /\ UNCHANGED <<embedder, disk, known_encodings, known_names, store,
                   cacheFile, registry, loc, nreq>>

\* 189-192: files = sorted(os.listdir(IMAGES_DIR))
FbList(t) ==
    /\ pc[t] = "fb_list"
    /\ loc' = [loc EXCEPT ![t].files = sorted(DOMAIN disk),
                          ![t].acc = EmptyGallery]
    /\ Goto(t, "fb_scan")
    /\ UNCHANGED <<embedder, shared, lock, nreq>>

\* a scan that stops at the first file the Embedder raises on
FbScanAbort(t) ==
    /\ pc[t] = "fb_scan"
    /\ loc[t].files # <<>>
    /\ LET f == Head(loc[t].files)
       IN  IF allowed_file(f) /\ ~(f \in DOMAIN disk /\ disk[f].ok)
           THEN loc' = [loc EXCEPT ![t].files = <<>>]
           ELSE loc' = [loc EXCEPT
                   ![t].files = Tail(loc[t].files),
                   ![t].acc = ScanFile(loc[t].acc, f, disk[f])]
    /\ Goto(t, "fb_scan")
    /\ UNCHANGED <<embedder, shared, lock, nreq>>

\* 193-209: one file of the scan; a file the Embedder raises on is skipped
FbScan(t) ==
    /\ pc[t] = "fb_scan"
    /\ loc[t].files # <<>>
    /\ LET f == Head(loc[t].files)
       IN  loc' = [loc EXCEPT
                ![t].files = Tail(loc[t].files),
                ![t].acc = IF allowed_file(f) /\ f \in DOMAIN disk /\ disk[f].ok
                           THEN ScanFile(loc[t].acc, f, disk[f])
                           ELSE loc[t].acc]
    /\ Goto(t, "fb_scan")
    /\ UNCHANGED <<embedder, shared, lock, nreq>>

\* 211-213: with _lock: _known_encodings = encs
FbAssignEnc(t) ==
    /\ pc[t] = "fb_scan"
    /\ loc[t].files = <<>>
    /\ Acquire(t)
    /\ known_encodings' = loc[t].acc.encodings
    /\ Goto(t, "fb_names")
    /\ UNCHANGED <<embedder, disk, known_names, known_meta, store, cacheFile,
                   registry, loc, nreq>>

\* 214: _known_names = names
FbAssignNames(t) ==
    /\ pc[t] = "fb_names"
    /\ lock = t
    /\ known_names' = loc[t].acc.names
    /\ Goto(t, "fb_meta")
    /\ UNCHANGED <<embedder, disk, known_encodings, known_meta, store,
                   cacheFile, registry, lock, loc, nreq>>

\* 215: _known_meta = meta, the end of the block
FbAssignMeta(t) ==
    /\ pc[t] = "fb_meta"
    /\ Release(t)
    /\ known_meta' = loc[t].acc.meta
    /\ loc' = [loc EXCEPT ![t].loaded = Len(loc[t].acc.names),
                          ![t].acc = EmptyGallery]
    /\ Goto(t, "fb_save")
    /\ UNCHANGED <<embedder, disk, known_encodings, known_names, store,
                   cacheFile, registry, nreq>>

\* 218-224: save_cache(ENC_CACHE_PATH) (139-146) and
\* return {"loaded": len(names)}
FbSave(t) ==
    /\ pc[t] = "fb_save"
    /\ Locked(t)
    /\ cacheFile' = gallery
    /\ BuildDone(t, loc[t].loaded)
    /\ UNCHANGED <<embedder, disk, known_encodings, known_names, known_meta,
                   store, registry, loc, nreq>>

(***************************************************************************)
(* DELETE /images/<filename> (app.py 323-340)                              *)
(***************************************************************************)
\* 325-329: 400 for a name of no allowed type, 404 for a file that is not
\* there; otherwise the file is about to be removed
DeleteStart(t, mode) ==
    /\ Begin(t, mode)
    /\ \E name \in DeleteNames \cup DOMAIN disk :
          /\ loc' = [loc EXCEPT ![t] = [Fresh(t, "delete") EXCEPT !.name = name]]
          /\ IF ~allowed_file(name)
             THEN Finish(t, [code |-> 400, error |-> "invalid filename"])
             ELSE IF name \notin DOMAIN disk
             THEN Finish(t, [code |-> 404, error |-> "not found"])
             ELSE Goto(t, "d_remove")
    /\ UNCHANGED <<embedder, shared, lock>>

\* 332-336: os.remove(path); 500 if it raises
DeleteRemove(t) ==
    /\ pc[t] = "d_remove"
    /\ IF loc[t].name \in DOMAIN disk
       THEN /\ disk' = Drop(disk, loc[t].name)
            /\ Goto(t, "b_start")
       ELSE /\ UNCHANGED disk
            /\ Finish(t, [code |-> 500, error |-> "failed to delete file"])
    /\ UNCHANGED <<embedder, known_encodings, known_names, known_meta, store,
                   cacheFile, registry, lock, loc, nreq>>

(***************************************************************************)
(* POST /reload (app.py 343-348)                                           *)
(***************************************************************************)
ReloadStart(t, mode) ==
    /\ Begin(t, mode)
    /\ loc' = [loc EXCEPT ![t] = Fresh(t, "reload")]
    /\ Goto(t, "b_start")
    /\ UNCHANGED <<embedder, shared, lock>>

(***************************************************************************)
(* GET /images (app.py 245-258)                                            *)
(***************************************************************************)
\* 248-249: with _lock: meta = dict(_known_meta)
ListStart(t, mode) ==
    /\ Begin(t, mode)
    /\ Locked(t)
    /\ loc' = [loc EXCEPT ![t] =
                  [Fresh(t, "list") EXCEPT !.acc = [EmptyGallery EXCEPT !.meta = known_meta]]]
    /\ Goto(t, "l_dir")
    /\ UNCHANGED <<embedder, shared>>

\* the faces reported for fname: the count in meta, None for a file of the
\* directory that meta does not know (254-256)
ListedFaces(meta, fname) ==
    IF fname \in DOMAIN meta THEN meta[fname] ELSE Null

\* 251-258: the directory listing is merged into meta; one image per key
list_images(meta, d) ==
    LET keys == sorted((DOMAIN meta) \cup {f \in DOMAIN d : allowed_file(f)})
    IN  [k \in 1..Len(keys) |->
            [filename |-> keys[k], faces |-> ListedFaces(meta, keys[k])]]

ListDir(t) ==
    /\ pc[t] = "l_dir"
    /\ Finish(t, [code |-> 200, images |-> list_images(loc[t].acc.meta, disk)])
    /\ UNCHANGED <<embedder, shared, lock, loc, nreq>>

(***************************************************************************)
(* POST /compare (app.py 350-386, face-store.py 73-78)                     *)
(***************************************************************************)
\* 356-357
CompareUnavailable(t, mode) ==
    /\ Begin(t, mode)
    /\ ~embedder
    /\ loc' = [loc EXCEPT ![t] = Fresh(t, "compare")]
    /\ Finish(t, [code |-> 500, error |-> "face_recognition not installed"])
    /\ UNCHANGED <<embedder, shared, lock>>

\* 358-364: no JSON body, or one without "a" or "b"
CompareInvalid(t, mode) ==
    /\ Begin(t, mode)
    /\ embedder
    /\ loc' = [loc EXCEPT ![t] = Fresh(t, "compare")]
    /\ Finish(t, [code |-> 400, error |-> "provide 'a' and 'b' filenames"])
    /\ UNCHANGED <<embedder, shared, lock>>

\* 366-373: both files must exist
CompareAccept(t, mode) ==
    /\ Begin(t, mode)
    /\ embedder
    /\ \E a \in CompareNames, b \in CompareNames, thr \in Thresholds :
          /\ loc' = [loc EXCEPT ![t] =
                [Fresh(t, "compare") EXCEPT !.name = a, !.b = b, !.thr = thr]]
          /\ IF a \in DOMAIN disk /\ b \in DOMAIN disk
             THEN Goto(t, "c_encode")
             ELSE Finish(t, [code |-> 404, error |-> "file not found"])
    /\ UNCHANGED <<embedder, shared, lock>>

\* face-store.py 76-77: the first face of a file; raises when the file is
\* gone, cannot be read or shows no face
FirstFaceRaises(d, fname) ==
    \/ fname \notin DOMAIN d
    \/ ~d[fname].ok
    \/ d[fname].faces = <<>>

\* face-store.py 73-78: compare_files(a, b)
compare_files(d, a, b) ==
    face_distance(<<Enc(a, d[a].faces[1])>>, d[b].faces[1])[1]

\* 375-386
CompareEncode(t) ==
    /\ pc[t] = "c_encode"
    /\ LET a == loc[t].name
           b == loc[t].b
       IN  IF FirstFaceRaises(disk, a) \/ FirstFaceRaises(disk, b)
           THEN Finish(t, [code |-> 400, error |-> "cannot encode images"])
           ELSE Finish(t, [code |-> 200, a |-> a, b |-> b,
                           distance |-> compare_files(disk, a, b),
                           match |-> compare_files(disk, a, b) <= loc[t].thr])
    /\ UNCHANGED <<embedder, shared, lock, loc, nreq>>

(***************************************************************************)
(* POST /recognize (app.py 389-454) and the registry (app.py 57-76)        *)
(***************************************************************************)
\* 428-431 for one face against a non-empty snapshot
BestIdx(known_encs, enc) == argmin(face_distance(known_encs, enc))
BestDist(known_encs, enc) ==
    face_distance(known_encs, enc)[BestIdx(known_encs, enc)]

\* 432 raises IndexError when the name list is shorter than the encodings
MatchRaises(known_encs, known_names_, enc, threshold) ==
    /\ known_encs # <<>>
    /\ BestDist(known_encs, enc) <= threshold
    /\ BestIdx(known_encs, enc) > Len(known_names_)

\* a matcher that reports distance 0 against an empty snapshot
MatchFaceZero(known_encs, known_names_, enc, threshold) ==
    IF known_encs # <<>>
    THEN [name |-> IF BestDist(known_encs, enc) <= threshold
                   THEN known_names_[BestIdx(known_encs, enc)]
                   ELSE Unknown,
          distance |-> BestDist(known_encs, enc)]
    ELSE [name |-> Unknown, distance |-> 0]

\* a matcher that accepts only a distance equal to the threshold
MatchFaceExact(known_encs, known_names_, enc, threshold) ==
    IF known_encs # <<>>
    THEN [name |-> IF BestDist(known_encs, enc) = threshold
                   THEN known_names_[BestIdx(known_encs, enc)]
                   ELSE Unknown,
          distance |-> BestDist(known_encs, enc)]
    ELSE [name |-> Unknown, distance |-> Null]

\* 428-441: the result for one face
MatchFace(known_encs, known_names_, enc, threshold) ==
    IF known_encs # <<>>
    THEN [name |-> IF BestDist(known_encs, enc) <= threshold
                   THEN known_names_[BestIdx(known_encs, enc)]
                   ELSE Unknown,
          distance |-> BestDist(known_encs, enc)]
    ELSE [name |-> Unknown, distance |-> Null]

\* 57-65: _load_registry()
LoadRegistry(file) == IF file.ok THEN file.items ELSE <<>>

\* 445-452: the entry for the first result
RegistryEntry(ts, first) ==
    [ts |-> ts,
     name |-> IF first.name \in {NoName, Unknown} THEN NoName ELSE first.name,
     status |-> IF first.name \notin {NoName, Unknown} THEN "ok" ELSE "fail",
     distance |-> first.distance]

\* 398-399
RecognizeUnavailable(t, mode) ==
    /\ Begin(t, mode)
    /\ ~embedder
    /\ loc' = [loc EXCEPT ![t] = Fresh(t, "recognize")]
    /\ Finish(t, [code |-> 500, error |-> "face_recognition not installed"])
    /\ UNCHANGED <<embedder, shared, lock>>

\* 401-406: no field "image", or a file name that is empty or not allowed
RecognizeInvalid(t, mode) ==
    /\ Begin(t, mode)
    /\ embedder
    /\ \E name \in ProbeNames :
          /\ name = <<>> \/ ~allowed_file(name)
          /\ loc' = [loc EXCEPT ![t] = [Fresh(t, "recognize") EXCEPT !.name = name]]
    /\ Finish(t, [code |-> 400, error |-> "invalid file type"])
    /\ UNCHANGED <<embedder, shared, lock>>

\* 408-413: the probe is written to a scratch file in a temporary directory
RecognizeAccept(t, mode) ==
    /\ Begin(t, mode)
    /\ embedder
    /\ \E name \in ProbeNames, probe \in ProbeContents, thr \in Thresholds :
          /\ ~(name = <<>> \/ ~allowed_file(name))
          /\ loc' = [loc EXCEPT ![t] =
                [Fresh(t, "recognize") EXCEPT !.name = name, !.content = probe,
                                              !.thr = thr, !.scratch = TRUE,
                                              !.ts = nreq + 1]]
    /\ Goto(t, "r_embed")
    /\ UNCHANGED <<embedder, shared, lock>>

\* an Embedder step that removes the scratch file only when the call returns
RecognizeEmbedLeaky(t) ==
    /\ pc[t] = "r_embed"
    /\ IF loc[t].content.ok
       THEN /\ loc' = [loc EXCEPT ![t].faces = loc[t].content.faces,
                                  ![t].scratch = FALSE]
            /\ Goto(t, "r_snapshot")
       ELSE /\ UNCHANGED loc
            /\ Finish(t, [code |-> 400, error |-> "cannot process image"])
    /\ UNCHANGED <<embedder, shared, lock, nreq>>

\* 414-420: the Embedder call returns or raises; either way the
\* TemporaryDirectory block is left and the scratch file is removed
RecognizeEmbed(t) ==
    /\ pc[t] = "r_embed"
    /\ IF loc[t].content.ok
       THEN /\ loc' = [loc EXCEPT ![t].faces = loc[t].content.faces,
                                  ![t].scratch = FALSE]
            /\ Goto(t, "r_snapshot")
       ELSE /\ loc' = [loc EXCEPT ![t].scratch = FALSE]
            /\ Finish(t, [code |-> 400, error |-> "cannot process image"])
    /\ UNCHANGED <<embedder, shared, lock, nreq>>

\* a snapshot taken without the lock
RecognizeSnapshotUnlocked(t) ==
    /\ pc[t] = "r_snapshot"
    /\ UNCHANGED lock
    /\ loc' = [loc EXCEPT ![t].snapE = known_encodings,
                          ![t].snapN = known_names]
    /\ Goto(t, "r_match")
    /\ UNCHANGED <<embedder, shared, nreq>>

\* 422-425: with _lock: the snapshot of encodings and names
RecognizeSnapshot(t) ==
    /\ pc[t] = "r_snapshot"
    /\ Locked(t)
    /\ loc' = [loc EXCEPT ![t].snapE = known_encodings,
                          ![t].snapN = known_names]
    /\ Goto(t, "r_match")
    /\ UNCHANGED <<embedder, shared, nreq>>

\* 427-441, 444, 69-70: every face is matched against the snapshot; with a
\* result, the registry directory is made (which may raise) and the
\* registry is loaded
RecognizeMatch(t) ==
    /\ pc[t] = "r_match"
    /\ LET E == loc[t].snapE
           N == loc[t].snapN
           faces == loc[t].faces
       IN  IF \E k \in 1..Len(faces) : MatchRaises(E, N, faces[k], loc[t].thr)
           THEN /\ UNCHANGED loc
                /\ Finish(t, [code |-> 500, error |-> "IndexError"])
           ELSE LET results == [k \in 1..Len(faces) |->
                                   MatchFace(E, N, faces[k], loc[t].thr)]
                IN  IF results = <<>>
                    THEN /\ UNCHANGED loc
                         /\ Finish(t, [code |-> 200, results |-> results])
                    ELSE \E makedirs_ok \in BOOLEAN :
                            IF makedirs_ok
                            THEN /\ loc' = [loc EXCEPT
                                      ![t].results = results,
                                      ![t].items = LoadRegistry(registry)]
                                 /\ Goto(t, "r_write")
                            ELSE /\ UNCHANGED loc
                                 /\ Finish(t, [code |-> 500, error |-> "OSError"])
    /\ UNCHANGED <<embedder, shared, lock, nreq>>

\* 71-76, 454: the list with the entry put first is written over the file;
\* a failure to open it leaves the file, a failure while writing leaves it
\* unreadable, and neither is reported
RecognizeWrite(t) ==
    /\ pc[t] = "r_write"
    /\ LET items == <<RegistryEntry(loc[t].ts, loc[t].results[1])>> \o loc[t].items
       IN  \E outcome \in {"written", "not opened", "cut short"} :
              registry' = CASE outcome = "written"    -> Readable(items)
                            [] outcome = "not opened" -> registry
                            [] outcome = "cut short"  -> Unreadable
    /\ Finish(t, [code |-> 200, results |-> loc[t].results])
    /\ UNCHANGED <<embedder, disk, known_encodings, known_names, known_meta,
                   store, cacheFile, lock, loc, nreq>>

(***************************************************************************)
(* Specifications                                                          *)
(***************************************************************************)
Step(t, mode) ==
    \/ UploadUnavailable(t, mode)
    \/ UploadNoFile(t, mode)
    \/ UploadInvalid(t, mode)
    \/ UploadAccept(t, mode)
    \/ UploadExists(t)
    \/ UploadSave(t)
    \/ UploadEncode(t)
    \/ UploadAppendEnc(t)
    \/ UploadAppendName(t)
    \/ UploadMeta(t)
    \/ UploadStoreEnc(t)
    \/ UploadStoreNames(t)
    \/ UploadStoreMeta(t)
    \/ UploadStoreSave(t)
    \/ UploadSaveCache(t)
    \/ DeleteStart(t, mode)
    \/ DeleteRemove(t)
    \/ ReloadStart(t, mode)
    \/ BuildUnavailable(t)
    \/ FsList(t)
    \/ FsScan(t)
    \/ FsSetEnc(t)
    \/ FsSetNames(t)
    \/ FsSetMeta(t)
    \/ FsSave(t)
    \/ FsReturn(t)
    \/ BuildCopyEnc(t)
    \/ BuildCopyNames(t)
    \/ BuildCopyMeta(t)
    \/ FbList(t)
    \/ FbScan(t)
    \/ FbAssignEnc(t)
    \/ FbAssignNames(t)
    \/ FbAssignMeta(t)
    \/ FbSave(t)
    \/ ListStart(t, mode)
    \/ ListDir(t)
    \/ CompareUnavailable(t, mode)
    \/ CompareInvalid(t, mode)
    \/ CompareAccept(t, mode)
    \/ CompareEncode(t)
    \/ RecognizeUnavailable(t, mode)
    \/ RecognizeInvalid(t, mode)
    \/ RecognizeAccept(t, mode)
    \/ RecognizeEmbed(t)
    \/ RecognizeSnapshot(t)
    \/ RecognizeMatch(t)
    \/ RecognizeWrite(t)
    \/ Return(t)

\* requests run concurrently, one thread each
Concurrent == [limit |-> MaxRequests, alone |-> FALSE]

Next == \E t \in Threads : Step(t, Concurrent)

Spec == Init /\ [][Next]_vars

\* requests run one at a time
OthersIdle(t) == \A u \in Threads \ {t} : pc[u] = "idle"

OneAtATime == [limit |-> MaxSeqRequests, alone |-> TRUE]

NextSeq == \E t \in Threads : Step(t, OneAtATime)

SpecSeq == Init /\ [][NextSeq]_vars

\* recognize requests, one at a time, on a gallery of up to MaxGallery
\* single-face images with encodings in 0..MaxEnc
MatchFiles == <<apng, <<"Unknown", ".", "jpg">>, <<"b", ".", "jpg">>,
                <<"b", ".", "png">>, xjpg, <<"y", ".", "JPG">>,
                <<"y", ".", "jpg">>>>

MatchDisks ==
    UNION {{[x \in {MatchFiles[k] : k \in 1..n} |->
                Img(<<vs[CHOOSE k \in 1..n : MatchFiles[k] = x]>>)]
            : vs \in [1..n -> 0..MaxEnc]}
           : n \in 0..MaxGallery}

InitMatch == \E d \in MatchDisks : InitOn(d)

RecognizeStep(t, mode) ==
    \/ RecognizeUnavailable(t, mode)
    \/ RecognizeInvalid(t, mode)
    \/ RecognizeAccept(t, mode)
    \/ RecognizeEmbed(t)
    \/ RecognizeSnapshot(t)
    \/ RecognizeMatch(t)
    \/ RecognizeWrite(t)
    \/ Return(t)

MatchOnly == [limit |-> MaxMatchRequests, alone |-> TRUE]

NextMatch == \E t \in Threads : RecognizeStep(t, MatchOnly)

SpecMatch == InitMatch /\ [][NextMatch]_vars

(***************************************************************************)
(* Properties                                                              *)
(***************************************************************************)
Min(S) == CHOOSE m \in S : \A n \in S : m <= n

\* every request has been answered
Quiescent == \A t \in Threads : pc[t] = "idle"

\* thread t has just answered a request of this kind
Answered(t, kind) == pc[t] = "done" /\ loc[t].kind = kind

\* C1: for every probe encoding, non-empty gallery and threshold, recognize
\* reports for a face the least distance over all gallery encodings, with
\* the name of the first gallery entry at that distance when it is <= the
\* threshold and "Unknown" (and the same distance) when it is greater.
C1_BestMatch ==
    \A t \in Threads :
        (Answered(t, "recognize") /\ resp[t].code = 200 /\ loc[t].snapE # <<>>)
        => /\ Len(resp[t].results) = Len(loc[t].faces)
           /\ \A k \in 1..Len(loc[t].faces) :
                LET E == loc[t].snapE
                    D == [i \in 1..Len(E) |-> Abs(E[i].v - loc[t].faces[k])]
                    m == Min({D[i] : i \in 1..Len(E)})
                    first == Min({i \in 1..Len(E) : D[i] = m})
                IN  /\ resp[t].results[k].distance = m
                    /\ resp[t].results[k].name =
                          IF m <= loc[t].thr THEN loc[t].snapN[first] ELSE Unknown

\* a face matched on a gallery in which two entries tie for the least
\* distance, and a face in the same run of the specification left unmatched
C1_Witness ==
    \E t \in Threads :
        /\ Answered(t, "recognize") /\ resp[t].code = 200
        /\ Len(loc[t].snapE) >= 2
        /\ \E k \in 1..Len(loc[t].faces) :
              LET E == loc[t].snapE
                  D == [i \in 1..Len(E) |-> Abs(E[i].v - loc[t].faces[k])]
                  m == Min({D[i] : i \in 1..Len(E)})
              IN  /\ Cardinality({i \in 1..Len(E) : D[i] = m}) >= 2
                  /\ m = loc[t].thr
                  /\ resp[t].results[k].name # Unknown
        /\ \E k \in 1..Len(loc[t].faces) :
              /\ resp[t].results[k].name = Unknown
              /\ resp[t].results[k].distance > loc[t].thr

\* C2: under any interleaving of uploads, upload never writes to a file name
\* that already exists in the image directory.
C2_NeverOverwrites ==
    [][\A t \in Threads :
          (pc[t] = "u_save" /\ pc'[t] = "u_encode")
          => loc[t].dest \notin DOMAIN disk]_vars

\* C3: once all requests have completed (no cache write having failed), the
\* cache file holds the encodings, names and meta of the in-memory gallery.
C3_CacheIsGallery == Quiescent => cacheFile = gallery

\* the files of the directory that contribute an encoding to a rebuild
Faced(d) == {f \in DOMAIN d : allowed_file(f) /\ d[f].ok /\ d[f].faces # <<>>}

\* C4: once all requests have completed (Embedder available), every image
\* file on disk in which a face is detected has its encoding and name in the
\* gallery, and no file absent from disk has one.
C4_GalleryIsDisk ==
    (Quiescent /\ embedder)
    => /\ \A f \in Faced(disk) :
            \E k \in 1..Len(known_encodings) :
                /\ known_encodings[k] = Enc(f, disk[f].faces[1])
                /\ k <= Len(known_names)
                /\ known_names[k] = Stem(f)
       /\ \A k \in 1..Len(known_encodings) :
            known_encodings[k].f \in DOMAIN disk

\* the lists are index-aligned
Aligned(encs, names) ==
    /\ Len(encs) = Len(names)
    /\ \A k \in 1..Len(encs) : names[k] = Stem(encs[k].f)

\* C5: whenever no thread is inside a locked block, the gallery's encoding
\* and name lists are index-aligned, and so is every snapshot taken by
\* recognize.
C5_Aligned ==
    /\ lock = NoThread => Aligned(known_encodings, known_names)
    /\ \A t \in Threads :
          pc[t] \in {"r_match", "r_write"} => Aligned(loc[t].snapE, loc[t].snapN)

\* s is the tail of r
IsTail(s, r) ==
    /\ Len(s) <= Len(r)
    /\ s = SubSeq(r, Len(r) - Len(s) + 1, Len(r))

\* C6: the registry is append-only: as long as the file is written in full,
\* the entries it held are kept, unmodified and in order, behind the new
\* ones.
C6_AppendOnly ==
    [][(registry.ok /\ registry'.ok)
       => IsTail(registry.items, registry'.items)]_vars

\* C7: a recognize request that detects a face and whose registry write goes
\* through puts exactly one entry at the head of the registry, the earlier
\* entries keeping their order behind it; a request that detects no face or
\* ends in an error leaves the registry as it is.
C7_OneEntryAtHead ==
    [][\A t \in Threads :
          (loc[t].kind = "recognize" /\ pc[t] # "done" /\ pc'[t] = "done")
          => IF resp'[t].code = 200 /\ resp'[t].results # <<>>
                /\ registry'.ok /\ registry' # registry
             THEN /\ Len(registry'.items) = Len(LoadRegistry(registry)) + 1
                  /\ Tail(registry'.items) = LoadRegistry(registry)
                  /\ registry'.items[1].ts = loc[t].ts
             ELSE \/ (resp'[t].code = 200 /\ resp'[t].results # <<>>)
                  \/ registry' = registry]_vars

\* C8: when DELETE /images/f answers deleted:true, a GET /images served next
\* does not list f and lists every other image file, and the gallery holds no
\* encoding, name or meta entry for f.
C8_DeletedIsGone ==
    \A t \in Threads :
        (Answered(t, "delete") /\ resp[t].code = 200 /\ OthersIdle(t))
        => LET f == loc[t].name
               listed == {list_images(known_meta, disk)[k].filename :
                             k \in 1..Len(list_images(known_meta, disk))}
           IN  /\ f \notin listed
               /\ \A g \in DOMAIN disk : allowed_file(g) => g \in listed
               /\ f \notin DOMAIN known_meta
               /\ \A k \in 1..Len(known_encodings) : known_encodings[k].f # f

\* base_i.ext
Numbered(base, i, ext) == base \o <<"_", Digits[i]>> \o ext

\* the name an upload of n is to be stored under in a directory holding
\* files: n itself if it is free, else base_i.ext for the least free i >= 1
Resolved(n, files) ==
    IF n \notin files THEN n
    ELSE LET se == splitext(n)
             i == Min({j \in 1..(Cardinality(files) + 1) :
                          Numbered(se[1], j, se[2]) \notin files})
         IN  Numbered(se[1], i, se[2])

\* the upload of thread t, taking n for the name it asked for, is stored
\* under Resolved and overwrites nothing; a 201 returns the name stored under
StoredAs(t, n) ==
    /\ (pc[t] = "u_save" /\ pc'[t] = "u_encode")
       => LET want == Resolved(n, DOMAIN disk)
          IN  /\ want \notin DOMAIN disk
              /\ disk' = Put(disk, want, loc[t].content)
              /\ loc[t].dest = want
    /\ (loc[t].kind = "upload" /\ pc[t] # "done" /\ pc'[t] = "done"
        /\ resp'[t].code = 201)
       => /\ resp'[t].filename = loc[t].dest
          /\ loc[t].dest \in DOMAIN disk

\* C9 as claimed: with uploads run one at a time, an upload is stored under
\* the submitted name if that is free and else under base_i.ext for the
\* least free i >= 1, that name is returned, and existing files are left
\* alone.
C9_StoredUnderSubmittedName ==
    [][\A t \in Threads : StoredAs(t, loc[t].name)]_vars

\* C9 as amended: the same of the sanitised name, secure_filename of the
\* submitted one.
C9_StoredUnderSanitisedName ==
    [][\A t \in Threads : StoredAs(t, secure_filename(loc[t].name))]_vars

\* an upload answered 201 with the second numbered name, x.jpg and x_1.jpg
\* being there already
C9_Witness ==
    \E t \in Threads :
        /\ Answered(t, "upload") /\ resp[t].code = 201
        /\ resp[t].filename = <<"x", "_", "2", ".", "jpg">>
        /\ {xjpg, <<"x", "_", "1", ".", "jpg">>} \subseteq DOMAIN disk

\* the name is empty or its extension is none of jpg, jpeg, png in any case
BadUploadName(n) ==
    ~ \E e \in {"jpg", "JPG", "jpeg", "png"} :
         Len(n) >= 2 /\ n[Len(n)] = e /\ n[Len(n) - 1] = "."

\* an upload with a bad name is answered at once with this code, and neither
\* the directory, the gallery, the cache file nor the registry changes
RejectedWith(t, code) ==
    (pc[t] = "idle" /\ pc'[t] # "idle" /\ loc'[t].kind = "upload"
     /\ BadUploadName(loc'[t].name))
    => /\ pc'[t] = "done"
       /\ resp'[t].code = code
       /\ shared' = shared

\* C10 as claimed: an upload whose file name is empty or of no allowed type
\* is rejected with a validation error and changes nothing.
C10_RejectedAsInvalid ==
    [][\A t \in Threads : RejectedWith(t, 400)]_vars

\* C10 as amended: it is rejected and changes nothing; the error is the
\* validation error when the Embedder is present and the "not installed"
\* error when it is absent.
C10_Rejected ==
    [][\A t \in Threads : RejectedWith(t, IF embedder THEN 400 ELSE 500)]_vars

\* x.gif has been refused with the validation error
C10_Witness ==
    \E t \in Threads :
        /\ Answered(t, "upload") /\ loc[t].name = xgif
        /\ resp[t].code = 400

\* C11: when the snapshot of the gallery holds no encodings, recognize
\* answers with one result per detected face, each with name "Unknown" and
\* distance null, for every probe and every threshold.
C11_EmptyGalleryUnknown ==
    \A t \in Threads :
        (Answered(t, "recognize") /\ resp[t].code = 200 /\ loc[t].snapE = <<>>)
        => /\ Len(resp[t].results) = Len(loc[t].faces)
           /\ \A k \in 1..Len(loc[t].faces) :
                 /\ resp[t].results[k].name = Unknown
                 /\ resp[t].results[k].distance = Null

\* a probe with two faces answered against an empty snapshot
C11_Witness ==
    \E t \in Threads :
        /\ Answered(t, "recognize") /\ resp[t].code = 200
        /\ loc[t].snapE = <<>>
        /\ Len(loc[t].faces) = 2
        /\ Len(resp[t].results) = 2

\* C12: for a fixed probe encoding and gallery and thresholds t1 < t2, a
\* face matched at t1 is matched at t2 as well, with the same name and the
\* same distance.
C12_ThresholdMonotone ==
    \A t \in Threads :
        (Answered(t, "recognize") /\ resp[t].code = 200)
        => \A k \in 1..Len(loc[t].faces) :
              \A t2 \in Thresholds :
                 (loc[t].thr < t2 /\ resp[t].results[k].name # Unknown)
                 => MatchFace(loc[t].snapE, loc[t].snapN, loc[t].faces[k], t2)
                       = resp[t].results[k]

\* a face matched at a threshold below the largest one, at a distance equal
\* to that threshold, on a gallery of two or more entries
C12_Witness ==
    \E t \in Threads :
        /\ Answered(t, "recognize") /\ resp[t].code = 200
        /\ Len(loc[t].snapE) >= 2
        /\ \E k \in 1..Len(loc[t].faces) :
              /\ resp[t].results[k].name # Unknown
              /\ resp[t].results[k].distance = loc[t].thr
              /\ \E t2 \in Thresholds : loc[t].thr < t2

\* the requests that need the Embedder: delete needs it for its rebuild
EncodingDependent == {"upload", "reload", "recognize", "compare", "delete"}

\* the names GET /images answered with
ListedNames(t) == {resp[t].images[k].filename : k \in 1..Len(resp[t].images)}

\* C13: with the Embedder absent, every upload, reload, recognize, compare
\* and delete request ends in an error response and leaves the gallery and
\* the cache file as a rebuild of the image directory would make them, and
\* GET /images answers with the allowed files of the directory.
C13_DegradesWhenAbsent ==
    ~embedder =>
        \A t \in Threads :
            /\ (pc[t] = "done" /\ loc[t].kind \in EncodingDependent)
               => /\ resp[t].code >= 400
                  /\ gallery = Rebuild(disk)
                  /\ cacheFile = gallery
            /\ Answered(t, "list")
               => ListedNames(t) = {f \in DOMAIN disk : allowed_file(f)}

\* C14: the scratch file that recognize writes the probe to exists only
\* while the Embedder works on it; it is gone when the request returns,
\* whether recognition succeeded, the Embedder failed or no face was found.
C14_ScratchRemoved ==
    \A t \in Threads :
        /\ loc[t].scratch => (loc[t].kind = "recognize" /\ pc[t] = "r_embed")
        /\ Answered(t, "recognize") => ~loc[t].scratch

\* one request answered after an Embedder failure and another answered with
\* a result, or with none for a probe without faces
C14_Witness ==
    \E t \in Threads, u \in Threads :
        /\ Answered(t, "recognize") /\ ~loc[t].content.ok
        /\ resp[t].code = 400 /\ loc[t].name # <<>> /\ allowed_file(loc[t].name)
        /\ Answered(u, "recognize") /\ resp[u].code = 200
        /\ loc[u].content.ok

\* the allowed files of directory d that the Embedder reads
Scanned(d) == {f \in DOMAIN d : allowed_file(f) /\ d[f].ok}

\* the allowed files of directory d that the Embedder raises on
Failing(d) == {f \in DOMAIN d : allowed_file(f) /\ ~d[f].ok}

\* C15: a rebuild during which the Embedder raises on some files completes:
\* the gallery holds, in the sorted order of the file names, the first-face
\* encoding and the stem of every other allowed file with a face, meta holds
\* the face count (0 included) of every allowed file that did not fail and
\* nothing else, and the count returned is the number of encodings.
C15_RebuildSkipsFailing ==
    \A t \in Threads :
        (pc[t] = "done" /\ loc[t].kind \in {"reload", "delete"}
            /\ resp[t].code = 200 /\ embedder /\ Failing(disk) # {})
        => LET files == sorted(Faced(disk))
               loaded == IF loc[t].kind = "reload" THEN resp[t].loaded
                         ELSE resp[t].reloaded
           IN  /\ known_encodings =
                     [k \in 1..Len(files) |->
                         Enc(files[k], disk[files[k]].faces[1])]
               /\ known_names = [k \in 1..Len(files) |-> Stem(files[k])]
               /\ known_meta = [f \in Scanned(disk) |-> Len(disk[f].faces)]
               /\ loaded = Len(files)

\* a reload answered on a directory with a file the Embedder raises on and
\* a file with faces sorted after it
C15_Witness ==
    \E t \in Threads :
        /\ Answered(t, "reload") /\ resp[t].code = 200
        /\ \E f \in Failing(disk), g \in Faced(disk) : NameLess(f, g)
        /\ resp[t].loaded >= 1

\* the file names of a GET /images response
Listed(r) == {r.images[k].filename : k \in 1..Len(r.images)}

\* C16: whenever GET /images answers, it lists exactly the allowed files
\* then present in the image directory, none that is no longer on disk, and
\* a file without a meta entry is listed with faces null.
C16_ListsDirectory ==
    [][\A t \in Threads :
          (pc[t] = "l_dir" /\ pc'[t] = "done")
          => /\ Listed(resp'[t]) = {f \in DOMAIN disk : allowed_file(f)}
             /\ \A k \in 1..Len(resp'[t].images) :
                   resp'[t].images[k].filename \notin DOMAIN known_meta
                   => resp'[t].images[k].faces = Null]_vars

\* the files the gallery holds an encoding of
Encoded == {known_encodings[i].f : i \in 1..Len(known_encodings)}

\* C17: under any interleaving of upload, reload and delete requests the
\* gallery holds at most one encoding per image file, and no more name
\* entries of one stem than there are files of that stem.
C17_OneEncodingPerFile ==
    /\ \A i \in 1..Len(known_encodings), j \in 1..Len(known_encodings) :
          i # j => known_encodings[i].f # known_encodings[j].f
    /\ \A n \in {known_names[i] : i \in 1..Len(known_names)} :
          Cardinality({i \in 1..Len(known_names) : known_names[i] = n})
             <= Cardinality({f \in Encoded \cup DOMAIN disk : Stem(f) = n})

\* C18: a recognize request holds the lock only for its snapshot, which
\* takes encodings and names at one moment at which no other request is
\* inside a lock block; the lock is not held while the Embedder works for
\* it, and every face of the probe is matched against that one snapshot.
C18_SnapshotUnderLock ==
    [][\A t \in Threads :
          /\ loc[t].kind = "recognize" => (lock # t /\ lock' # t)
          /\ (pc[t] = "r_snapshot" /\ pc'[t] = "r_match")
             => /\ lock = NoThread
                /\ loc'[t].snapE = known_encodings
                /\ loc'[t].snapN = known_names
          /\ (pc[t] = "r_match" /\ pc'[t] = "r_write")
             => /\ loc'[t].snapE = loc[t].snapE /\ loc'[t].snapN = loc[t].snapN
                /\ loc'[t].results =
                      [k \in 1..Len(loc[t].faces) |->
                          MatchFace(loc[t].snapE, loc[t].snapN,
                                    loc[t].faces[k], loc[t].thr)]
          /\ (pc[t] = "r_write" /\ pc'[t] = "done")
             => resp'[t].results = loc[t].results]_vars

\* an upload that began after a recognize request entered the Embedder has
\* been answered with 201 while that request is still inside the Embedder
C18_Witness ==
    /\ pc[1] = "r_embed" /\ loc[1].kind = "recognize"
    /\ Answered(2, "upload") /\ resp[2].code = 201
    /\ lock = NoThread

\* thread t has answered a recognize request whose probe showed a face and
\* whose matching did not raise
Matched(t) ==
    /\ Answered(t, "recognize")
    /\ loc[t].faces # <<>>
    /\ \A k \in 1..Len(loc[t].faces) :
          ~MatchRaises(loc[t].snapE, loc[t].snapN, loc[t].faces[k], loc[t].thr)

\* C19: a recognize request that found a face answers with its results,
\* one per face, whether or not the registry could be persisted: a failure
\* to make the registry's directory or to write the file is swallowed.
C19_PersistFailureSwallowed ==
    \A t \in Threads :
        Matched(t)
        => /\ resp[t].code = 200
           /\ resp[t].results =
                 [k \in 1..Len(loc[t].faces) |->
                     MatchFace(loc[t].snapE, loc[t].snapN,
                               loc[t].faces[k], loc[t].thr)]

\* C20: the registry entry that a recognize request writes has status "ok"
\* and the name of the matched gallery entry, whatever that name is, exactly
\* when the least distance of the first face is <= the threshold; otherwise
\* it has status "fail" and name null; its distance is the one reported for
\* the first face.
C20_EntryStatus ==
    \A t \in Threads :
        (Answered(t, "recognize") /\ resp[t].code = 200 /\ loc[t].faces # <<>>
            /\ registry.ok /\ registry.items # <<>>
            /\ registry.items[1].ts = loc[t].ts)
        => LET E == loc[t].snapE
               D == [i \in 1..Len(E) |-> Abs(E[i].v - loc[t].faces[1])]
               m == Min({D[i] : i \in 1..Len(E)})
               first == Min({i \in 1..Len(E) : D[i] = m})
               e == registry.items[1]
           IN  /\ e.distance = resp[t].results[1].distance
               /\ IF E # <<>> /\ m <= loc[t].thr
                  THEN e.status = "ok" /\ e.name = loc[t].snapN[first]
                  ELSE e.status = "fail" /\ e.name = NoName

\* C21: an upload during which the Embedder raises on the saved file ends
\* in an error response, and leaves the gallery and the cache file as they
\* were before the request and no uploaded file in the image directory.
C21_FailedUploadLeavesNothing ==
    [][\A t \in Threads :
          /\ (loc[t].kind = "upload"
                 /\ pc[t] \in {"u_exists", "u_save", "u_encode"})
             => (gallery' = gallery /\ cacheFile' = cacheFile)
          /\ (pc[t] = "u_encode" /\ pc'[t] = "done")
             => /\ resp'[t].code >= 400
                /\ loc[t].dest \notin DOMAIN disk']_vars

====
